---- MODULE Spec2Model ----
(***************************************************************************)
(* Model of the free-proxy harvester (proxy/check_proxy.py) and of the    *)
(* proxy list file it hands to the crawler (utils/filesystem.py).         *)
(*                                                                         *)
(* One harvesting run is scrape_free_proxy: GET the list page, parse the  *)
(* table, process_proxies (submit one validate_and_collect_proxy task per *)
(* candidate to a ThreadPoolExecutor, wait for every future, leave the    *)
(* with block, write proxy_list.txt).  Strings are sequences of one-      *)
(* character strings, so that writing and reading the file are computed.  *)
(***************************************************************************)
EXTENDS Integers, Sequences, FiniteSets, TLC

\* ------------------------------------------------------------------ bounds

\* Rows of the scraped table, hence candidates of one run.
MaxRows == 3
\* Threads of the ThreadPoolExecutor (the runtime's default sizing).
MaxWorkers == 2
\* random.uniform is drawn on a grid of UniformSteps intervals.
UniformSteps == 1
\* Length of the sequences the store round trip is tried on.
MaxLen == 2
\* Country links on the index page.
MaxLinks == 3
\* Lines of the proxy list file the crawler is started on.
MaxProxies == 2

\* --------------------------------------------------------------- constants

\* scrape_free_proxy(url, delay_min=1, delay_max=5, ...)
delay_min == 1
delay_max == 5

LF == "\n"
\* What str.rstrip() with no argument removes.
Whitespace == {" ", LF}

\* requests.exceptions.RequestException and the subclasses the model raises.
RequestException == {"Timeout", "ConnectionError", "HTTPError"}
\* An exception that is no RequestException (a programming error).
OtherException == {"ValueError"}

NoResponse == [status |-> 0, exc |-> "none"]

\* What the probe of one candidate can end in: a response with a status
\* code, a network-layer exception, or an unexpected exception.
ProbeOutcomes ==
    {[status |-> s, exc |-> "none"] : s \in {200, 403}}
    \cup {[status |-> 0, exc |-> e] : e \in {"Timeout", "ConnectionError"}}
    \cup {[status |-> 0, exc |-> e] : e \in OtherException}

\* What the GET of the list page can end in.
PageOutcomes ==
    {[status |-> s, exc |-> "none"] : s \in {200, 304, 404, 503}}
    \cup {[status |-> 0, exc |-> e] : e \in {"Timeout", "ConnectionError"}}

\* The <td> texts of a table row: a header row has none.
TableRows == {<< >>, << <<"1">>, <<"8">> >>, << <<"2">>, <<"9">> >>}

Tasks == 1..MaxRows

\* The country links of the index page, by their position on the page.
Links == 1..MaxLinks

RECURSIVE SeqsUpTo(_, _)
SeqsUpTo(S, n) ==
    IF n = 0 THEN {<< >>}
    ELSE LET shorter == SeqsUpTo(S, n - 1)
         IN  shorter \cup {Append(s, x) : s \in shorter, x \in S}

\* ------------------------------------------------------------------- state

VARIABLES
    pc,             \* position of the main thread in scrape_free_proxy / process_proxies
    response,       \* the list page's response (scrape_free_proxy)
    table,          \* the table soup.find returned: unset, None, Tag
    exc,            \* the exception that left scrape_free_proxy, "none" if none
    proxy_list,     \* candidates parsed from the page
    valid_proxies,  \* the shared result list of process_proxies
    submitted,      \* number of futures created so far
    waiting,        \* index of the future the wait loop is blocked on
    futures,        \* per task: none, pending, probe, valid, append, sleep, done, raised
    probe,          \* per task: the outcome of its probe while in flight
    is_valid,       \* per task: none, Working, Failed
    lock,           \* task inside list.append (0: none)
    local,          \* per task: the list as list.append read it
    nap,            \* per task: duration of the sleep in progress (0: not sleeping)
    naps,           \* per task: number of time.sleep calls made
    probes,         \* per task: number of requests.get calls made by is_working_proxy
    file,           \* content of ./proxy/proxy_list.txt
    file_at_start,  \* content of the file when the current run started
    file_exists,    \* whether ./proxy/proxy_list.txt exists
    lines_list,     \* what read_file_to_list returned
    cpc,            \* position of the main thread in scrape_country
    cexc,           \* the exception that left scrape_country, "none" if none
    country_links,  \* the country links of the index page, in page order
    proxies,        \* scrape_country's list of proxies
    proxy_pool,     \* itertools.cycle(proxies): index of the element next() returns
    dispatched,     \* the proxy passed to each submitted scrape_country_csv_data
    ctask,          \* per country task: none, pending, page, files, sleep, done, raised
    archives,       \* per country task: archive links still to download
    sent            \* the HTTP requests the crawler has issued, with their route

vars == <<pc, response, table, exc, proxy_list, valid_proxies, submitted, waiting,
          futures, probe, is_valid, lock, local, nap, naps, probes, file,
          file_at_start, file_exists, lines_list,
          cpc, cexc, country_links, proxies, proxy_pool, dispatched, ctask,
          archives, sent>>

taskVars == <<futures, probe, is_valid, lock, local, nap, naps, probes, valid_proxies>>
mainVars == <<pc, response, table, exc, proxy_list, submitted, waiting, file,
              file_at_start, file_exists, lines_list>>

crawlVars == <<cpc, cexc, country_links, proxies, proxy_pool, dispatched, ctask,
               archives, sent>>

\* ------------------------------------------------------------ pure helpers

\* random.uniform(a, b): a + (b - a) * random(), on the grid.
uniform(a, b) == {a + ((b - a) * u) \div UniformSteps : u \in 0..UniformSteps}

\* Mutant: any response counts as working, whatever its status code.
is_working_proxy_any_response(outcome) ==
    IF outcome.exc = "none"
    THEN [raised |-> "none", is_valid |-> TRUE]
    ELSE IF outcome.exc \in RequestException
         THEN [raised |-> "none", is_valid |-> FALSE]
         ELSE [raised |-> outcome.exc, is_valid |-> FALSE]

\* is_working_proxy: TRUE/FALSE returned, or the name of the exception raised.
is_working_proxy(outcome) ==
    IF outcome.exc = "none"
    THEN [raised |-> "none", is_valid |-> (outcome.status = 200)]
    ELSE IF outcome.exc \in RequestException
         THEN [raised |-> "none", is_valid |-> FALSE]
         ELSE [raised |-> outcome.exc, is_valid |-> FALSE]

\* response.raise_for_status(): HTTPError for 4xx and 5xx, nothing otherwise.
raise_for_status(r) ==
    IF 400 <= r.status /\ r.status < 600 THEN "HTTPError" ELSE "none"

\* Lines 40-47: one "ip:port" per row with at least two cells.
RECURSIVE parse_rows(_)
parse_rows(rows) ==
    IF rows = << >> THEN << >>
    ELSE LET cells == Head(rows)
         IN  IF Len(cells) >= 2
             THEN <<cells[1] \o <<":">> \o cells[2]>> \o parse_rows(Tail(rows))
             ELSE parse_rows(Tail(rows))

\* Mutant: the lines are written last to first.
RECURSIVE write_lines_reversed(_)
write_lines_reversed(valid) ==
    IF valid = << >> THEN << >>
    ELSE write_lines_reversed(Tail(valid)) \o Head(valid) \o <<LF>>

\* Lines 136-137: file.write(proxy + "\n") for each proxy, in order.
RECURSIVE write_lines(_)
write_lines(valid) ==
    IF valid = << >> THEN << >>
    ELSE Head(valid) \o <<LF>> \o write_lines(Tail(valid))

\* Mutant: the file is opened for appending.
open_a(content) == content

\* open(path, 'w'): the file is truncated.
open_w(content) == << >>

\* ---------------------------------------------------------------- initial

\* scrape_country has not been called.
CrawlerIdle ==
    /\ cpc = "idle"
    /\ cexc = "none"
    /\ country_links = << >>
    /\ proxies = << >>
    /\ proxy_pool = 0
    /\ dispatched = << >>
    /\ ctask = [k \in Links |-> "none"]
    /\ archives = [k \in Links |-> 0]
    /\ sent = {}

\* What ./proxy/proxy_list.txt may hold when a run starts: nothing, or what
\* an earlier run wrote.
PriorFiles == {<< >>, write_lines(<< <<"2", ":", "9">>, <<"1", ":", "8">> >>)}

Init ==
    /\ pc = "idle"
    /\ response = NoResponse
    /\ table = "unset"
    /\ exc = "none"
    /\ proxy_list = << >>
    /\ valid_proxies = << >>
    /\ submitted = 0
    /\ waiting = 0
    /\ futures = [i \in Tasks |-> "none"]
    /\ probe = [i \in Tasks |-> NoResponse]
    /\ is_valid = [i \in Tasks |-> "none"]
    /\ lock = 0
    /\ local = [i \in Tasks |-> << >>]
    /\ nap = [i \in Tasks |-> 0]
    /\ naps = [i \in Tasks |-> 0]
    /\ probes = [i \in Tasks |-> 0]
    /\ file \in PriorFiles
    /\ file_at_start = file
    /\ file_exists = (file # << >>)
    /\ lines_list = << >>
    /\ CrawlerIdle

\* ------------------------------------------------- scrape_free_proxy (main)

\* Line 30: requests.get(url, ...) returns a response or raises.
Get ==
    /\ pc = "idle"
    /\ \E r \in PageOutcomes :
        /\ response' = r
        /\ pc' = IF r.exc \in RequestException THEN "fetch_failed" ELSE "got"
    /\ UNCHANGED <<table, exc, proxy_list, submitted, waiting, file, file_at_start, file_exists, lines_list>>
    /\ UNCHANGED taskVars
    /\ UNCHANGED crawlVars

\* Line 31, and the except clause of lines 51-52.
RaiseForStatus ==
    /\ pc = "got"
    /\ pc' = IF raise_for_status(response) \in RequestException
             THEN "fetch_failed" ELSE "parse"
    /\ UNCHANGED <<response, table, exc, proxy_list, submitted, waiting, file_at_start, file_exists, lines_list, file>>
    /\ UNCHANGED taskVars
    /\ UNCHANGED crawlVars

\* Lines 33-34: the content is parsed and the table looked up.
FindTable ==
    /\ pc = "parse"
    /\ table' \in {"None", "Tag"}
    /\ pc' = "rows"
    /\ UNCHANGED <<response, exc, proxy_list, submitted, waiting, file, file_at_start, file_exists,
                   lines_list>>
    /\ UNCHANGED taskVars
    /\ UNCHANGED crawlVars

\* Lines 36-41 when the table is None: the message is logged and
\* table.find_all raises AttributeError, which the except clause of line 51
\* does not catch.
NoTable ==
    /\ pc = "rows"
    /\ table = "None"
    /\ exc' = "AttributeError"
    /\ pc' = "raised"
    /\ UNCHANGED <<response, table, proxy_list, submitted, waiting, file, file_at_start, file_exists,
                   lines_list>>
    /\ UNCHANGED taskVars
    /\ UNCHANGED crawlVars

\* Lines 40-49 when the table was found, up to the call of process_proxies
\* and its line 122; the response is not read again.
CallProcessProxies ==
    /\ pc = "rows"
    /\ table = "Tag"
    /\ \E rows \in SeqsUpTo(TableRows, MaxRows) :
        proxy_list' = parse_rows(rows)
    /\ valid_proxies' = << >>
    /\ response' = NoResponse
    /\ pc' = "submit"
    /\ UNCHANGED <<table, exc, submitted, waiting, file, file_at_start, file_exists, lines_list>>
    /\ UNCHANGED <<futures, probe, is_valid, lock, local, nap, naps, probes>>
    /\ UNCHANGED crawlVars

\* ---------------------------------------------------- process_proxies (main)

\* Lines 126-129: executor.submit for the next candidate.
Submit ==
    /\ pc = "submit"
    /\ submitted < Len(proxy_list)
    /\ submitted' = submitted + 1
    /\ futures' = [futures EXCEPT ![submitted + 1] = "pending"]
    /\ UNCHANGED <<pc, response, table, exc, proxy_list, waiting, file, file_at_start, file_exists, lines_list>>
    /\ UNCHANGED <<probe, is_valid, lock, local, nap, naps, probes, valid_proxies>>
    /\ UNCHANGED crawlVars

\* The list comprehension is exhausted: the wait loop of line 131 starts.
SubmitDone ==
    /\ pc = "submit"
    /\ submitted = Len(proxy_list)
    /\ pc' = "wait"
    /\ waiting' = 1
    /\ UNCHANGED <<response, table, exc, proxy_list, submitted, file, file_at_start, file_exists, lines_list>>
    /\ UNCHANGED taskVars
    /\ UNCHANGED crawlVars

\* Mutant: a future counts as finished as soon as it is submitted.
Finished_submitted(i) == futures[i] # "none"

\* A future that result() and shutdown(wait=True) no longer block on.
Finished(i) == futures[i] \in {"done", "raised"}

\* Line 132: future.result() of the next future, which returns when the
\* task has finished and raises the task's exception when it raised one.
Result ==
    /\ pc = "wait"
    /\ waiting <= submitted
    /\ Finished(waiting)
    /\ IF futures[waiting] = "raised"
       THEN /\ exc' = is_working_proxy(probe[waiting]).raised
            /\ pc' = "shutdown"
            /\ UNCHANGED waiting
       ELSE /\ waiting' = waiting + 1
            /\ UNCHANGED <<pc, exc>>
    /\ UNCHANGED <<response, table, proxy_list, submitted, file, file_at_start, file_exists, lines_list>>
    /\ UNCHANGED taskVars
    /\ UNCHANGED crawlVars

\* The wait loop is exhausted: the with block is left.
ResultDone ==
    /\ pc = "wait"
    /\ waiting > submitted
    /\ pc' = "shutdown"
    /\ UNCHANGED <<response, table, exc, proxy_list, submitted, waiting, file_at_start, file_exists, lines_list, file>>
    /\ UNCHANGED taskVars
    /\ UNCHANGED crawlVars

\* Mutant: the task's exception is swallowed.
leave_with_swallowed(e) == "open"

\* Where the main thread goes when the with block is left: on to line 135,
\* or out of process_proxies and scrape_free_proxy with the exception, which
\* no except clause on the way catches.
leave_with(e) == IF e = "none" THEN "open" ELSE "raised"

\* Mutant: the executor is shut down without waiting for its tasks.
shutdown_nowait == TRUE

\* executor.shutdown(wait=True): every submitted task has ended; none is
\* cancelled.
shutdown_wait == \A i \in 1..submitted : Finished(i)

\* Line 125, __exit__: executor.shutdown(wait=True) joins the workers, which
\* run every queued task first; then the block is left, normally or with
\* the exception of line 132.
Shutdown ==
    /\ pc = "shutdown"
    /\ shutdown_wait
    /\ pc' = leave_with(exc)
    /\ UNCHANGED <<response, table, exc, proxy_list, submitted, waiting, file_at_start, file_exists, lines_list, file>>
    /\ UNCHANGED taskVars
    /\ UNCHANGED crawlVars

\* Line 135: open(..., 'w').
Open ==
    /\ pc = "open"
    /\ file' = open_w(file)
    /\ file_exists' = TRUE
    /\ pc' = "write"
    /\ UNCHANGED <<response, table, exc, proxy_list, submitted, waiting, file_at_start, lines_list>>
    /\ UNCHANGED taskVars
    /\ UNCHANGED crawlVars

\* Lines 136-139: the lines are written, the file is closed, the function
\* returns, and so does scrape_free_proxy.
Write ==
    /\ pc = "write"
    /\ file' = file \o write_lines(valid_proxies)
    /\ pc' = "returned"
    /\ UNCHANGED <<response, table, exc, proxy_list, submitted, waiting, file_at_start, file_exists, lines_list>>
    /\ UNCHANGED taskVars
    /\ UNCHANGED crawlVars

\* ------------------------------------------ validate_and_collect_proxy (pool)

\* Mutant: a worker thread is not given back when its task has ended.
Running_leak == {i \in Tasks : futures[i] \notin {"none", "pending"}}

\* The tasks that occupy a worker thread.
Running == {i \in Tasks : futures[i] \in {"probe", "valid", "append", "sleep"}}

\* A worker thread takes the oldest queued task and calls is_working_proxy,
\* whose requests.get (line 69) is then in flight.
Start(i) ==
    /\ futures[i] = "pending"
    /\ \A j \in 1..(i - 1) : futures[j] # "pending"
    /\ Cardinality(Running) < MaxWorkers
    /\ \E o \in ProbeOutcomes : probe' = [probe EXCEPT ![i] = o]
    /\ probes' = [probes EXCEPT ![i] = @ + 1]
    /\ futures' = [futures EXCEPT ![i] = "probe"]
    /\ UNCHANGED <<is_valid, lock, local, nap, naps, valid_proxies>>
    /\ UNCHANGED mainVars
    /\ UNCHANGED crawlVars

\* Mutant: the candidate is collected whatever the validation says.
after_probe_collect_all(valid) == "valid"

\* Mutant: the delay is applied on failure too.
after_probe_sleep_always(valid) == IF valid THEN "valid" ELSE "sleep"

\* Mutant: a retried probe, the task is queued again when it failed.
after_probe_retry(valid) == IF valid THEN "valid" ELSE "pending"

\* Lines 92-97: where a task goes on the value is_working_proxy returned.
after_probe(valid) == IF valid THEN "valid" ELSE "done"

\* Lines 66-75 and the test of line 92: is_working_proxy returns or raises.
ProbeReturn(i) ==
    /\ futures[i] = "probe"
    /\ LET r == is_working_proxy(probe[i])
       IN  IF r.raised # "none"
           THEN /\ futures' = [futures EXCEPT ![i] = "raised"]
                /\ UNCHANGED <<is_valid, probe>>
           ELSE /\ is_valid' = [is_valid EXCEPT ![i] =
                                    IF r.is_valid THEN "Working" ELSE "Failed"]
                /\ futures' = [futures EXCEPT ![i] = after_probe(r.is_valid)]
                /\ probe' = [probe EXCEPT ![i] = NoResponse]
    /\ UNCHANGED <<lock, local, nap, naps, probes, valid_proxies>>
    /\ UNCHANGED mainVars
    /\ UNCHANGED crawlVars

\* Mutant: list.append is entered without regard to the other threads.
MayAppend_unguarded(i) == TRUE

\* list.append runs with the interpreter's lock held: no other thread is
\* inside a list operation at the same time.
MayAppend(i) == lock = 0

\* Line 93, entering list.append: the list is read.
AppendBegin(i) ==
    /\ futures[i] = "valid"
    /\ MayAppend(i)
    /\ lock' = i
    /\ local' = [local EXCEPT ![i] = valid_proxies]
    /\ futures' = [futures EXCEPT ![i] = "append"]
    /\ UNCHANGED <<probe, is_valid, nap, naps, probes, valid_proxies>>
    /\ UNCHANGED mainVars
    /\ UNCHANGED crawlVars

\* Line 93, leaving list.append, and lines 94-95 up to the call of sleep.
AppendEnd(i) ==
    /\ futures[i] = "append"
    /\ valid_proxies' = Append(local[i], proxy_list[i])
    /\ lock' = IF lock = i THEN 0 ELSE lock
    /\ local' = [local EXCEPT ![i] = << >>]
    /\ \E d \in uniform(delay_min, delay_max) : nap' = [nap EXCEPT ![i] = d]
    /\ naps' = [naps EXCEPT ![i] = @ + 1]
    /\ futures' = [futures EXCEPT ![i] = "sleep"]
    /\ UNCHANGED <<probe, is_valid, probes>>
    /\ UNCHANGED mainVars
    /\ UNCHANGED crawlVars

\* Line 95: time.sleep returns, and the task with it.
Wake(i) ==
    /\ futures[i] = "sleep"
    /\ nap' = [nap EXCEPT ![i] = 0]
    /\ futures' = [futures EXCEPT ![i] = "done"]
    /\ UNCHANGED <<probe, is_valid, lock, local, naps, probes, valid_proxies>>
    /\ UNCHANGED mainVars
    /\ UNCHANGED crawlVars

Next ==
    \/ Get
    \/ RaiseForStatus
    \/ FindTable
    \/ NoTable
    \/ CallProcessProxies
    \/ Submit
    \/ SubmitDone
    \/ Result
    \/ ResultDone
    \/ Shutdown
    \/ Open
    \/ Write
    \/ \E i \in Tasks : Start(i)
    \/ \E i \in Tasks : ProbeReturn(i)
    \/ \E i \in Tasks : AppendBegin(i)
    \/ \E i \in Tasks : AppendEnd(i)
    \/ \E i \in Tasks : Wake(i)

Spec == Init /\ [][Next]_vars

\* The steps of the main thread, and of the worker thread running task i.
MainStep ==
    \/ Get \/ RaiseForStatus \/ FindTable \/ NoTable \/ CallProcessProxies
    \/ Submit \/ SubmitDone \/ Result \/ ResultDone \/ Shutdown \/ Open \/ Write

TaskStep(i) ==
    Start(i) \/ ProbeReturn(i) \/ AppendBegin(i) \/ AppendEnd(i) \/ Wake(i)

\* Every thread that can take a step eventually takes one: the main thread
\* is scheduled, every requests.get ends (a response, an error or the
\* timeout of 5 s), every lock is granted and every sleep is finite.
FairSpec ==
    /\ Init /\ [][Next]_vars
    /\ WF_vars(MainStep)
    /\ \A i \in Tasks : WF_vars(TaskStep(i))

\* ------------------------------------------- the store: persist and load

\* Lines 66-67 of filesystem.py: iterating a text file yields its lines, each
\* with its terminator, the last one possibly without.
RECURSIVE split_lines(_, _)
split_lines(content, line) ==
    IF content = << >>
    THEN IF line = << >> THEN << >> ELSE <<line>>
    ELSE IF Head(content) = LF
         THEN <<Append(line, LF)>> \o split_lines(Tail(content), << >>)
         ELSE split_lines(Tail(content), Append(line, Head(content)))

\* Mutant: the line is kept with its terminator.
rstrip_nothing(line) == line

\* Line 69: line.rstrip() removes the trailing whitespace.
RECURSIVE rstrip(_)
rstrip(line) ==
    IF line # << >> /\ line[Len(line)] \in Whitespace
    THEN rstrip(SubSeq(line, 1, Len(line) - 1))
    ELSE line

\* read_file_to_list.
read_file_to_list(content) ==
    LET lines == split_lines(content, << >>)
    IN  [k \in 1..Len(lines) |-> rstrip(lines[k])]

\* The strings the store is tried on: two addresses, one string that ends in
\* a blank and one that holds a line break.
StoreStrings ==
    {<<"1", ":", "8">>, <<"2", ":", "9">>, <<"1", ":", " ">>, <<"1", LF, "8">>}

StoreInit ==
    /\ pc = "open"
    /\ response = NoResponse
    /\ table = "unset"
    /\ exc = "none"
    /\ proxy_list = << >>
    /\ valid_proxies \in SeqsUpTo(StoreStrings, MaxLen)
    /\ submitted = 0
    /\ waiting = 0
    /\ futures = [i \in Tasks |-> "none"]
    /\ probe = [i \in Tasks |-> NoResponse]
    /\ is_valid = [i \in Tasks |-> "none"]
    /\ lock = 0
    /\ local = [i \in Tasks |-> << >>]
    /\ nap = [i \in Tasks |-> 0]
    /\ naps = [i \in Tasks |-> 0]
    /\ probes = [i \in Tasks |-> 0]
    /\ file \in PriorFiles
    /\ file_at_start = file
    /\ file_exists = (file # << >>)
    /\ lines_list = << >>
    /\ CrawlerIdle

\* filesystem.read_file_to_list("./proxy/proxy_list.txt") once the file is
\* written.
ReadFileToList ==
    /\ pc = "returned"
    /\ lines_list' = read_file_to_list(file)
    /\ pc' = "loaded"
    /\ UNCHANGED <<response, table, exc, proxy_list, submitted, waiting, file,
                   file_at_start, file_exists>>
    /\ UNCHANGED taskVars
    /\ UNCHANGED crawlVars

\* Lines 134-137 once more, on another sequence and the same path.
PersistAgain ==
    /\ pc \in {"returned", "loaded"}
    /\ valid_proxies' \in SeqsUpTo(StoreStrings, MaxLen)
    /\ file_at_start' = file
    /\ lines_list' = << >>
    /\ pc' = "open"
    /\ UNCHANGED <<response, table, exc, proxy_list, submitted, waiting, file, file_exists>>
    /\ UNCHANGED <<futures, probe, is_valid, lock, local, nap, naps, probes>>
    /\ UNCHANGED crawlVars

StoreNext ==
    \/ Open
    \/ Write
    \/ ReadFileToList
    \/ PersistAgain

SpecStore == StoreInit /\ [][StoreNext]_vars

\* ---------------------------------------------------------------- crawler
\* scraper.scrape_country and the tasks it submits, started on a proxy list
\* file that a harvesting run left behind, or on none.

\* Archive links found on one country page.
MaxArchives == 1

\* Addresses the harvester may have written.
CrawlAddresses == {<<"1", ":", "8">>, <<"2", ":", "9">>}

\* What the crawler's GETs can end in: a response with a status code, or
\* an exception. "OSConnectionError" is the builtin ConnectionError, which
\* is no RequestException.
IndexOutcomes ==
    {[status |-> s, exc |-> "none"] : s \in {200, 404}}
    \cup {[status |-> 0, exc |-> e] : e \in {"Timeout"}}
CountryOutcomes ==
    {[status |-> s, exc |-> "none"] : s \in {200, 403}}
    \cup {[status |-> 0, exc |-> e] : e \in {"Timeout"}}
ArchiveOutcomes ==
    {[status |-> s, exc |-> "none"] : s \in {200, 404}}
    \cup {[status |-> 0, exc |-> e] : e \in {"Timeout", "OSConnectionError"}}

\* proxies=None: the request goes out directly.
Direct == << >>

\* One request: what was fetched, for which country task (0: none), and the
\* proxies it was routed through.
Request(what, k, via) == [request |-> what, task |-> k, via |-> via]

CrawlInit ==
    /\ pc = "crawl"
    /\ response = NoResponse
    /\ table = "unset"
    /\ exc = "none"
    /\ proxy_list = << >>
    /\ valid_proxies = << >>
    /\ submitted = 0
    /\ waiting = 0
    /\ futures = [i \in Tasks |-> "none"]
    /\ probe = [i \in Tasks |-> NoResponse]
    /\ is_valid = [i \in Tasks |-> "none"]
    /\ lock = 0
    /\ local = [i \in Tasks |-> << >>]
    /\ nap = [i \in Tasks |-> 0]
    /\ naps = [i \in Tasks |-> 0]
    /\ probes = [i \in Tasks |-> 0]
    /\ file_exists \in BOOLEAN
    /\ file \in IF file_exists
                THEN {write_lines(ps) : ps \in SeqsUpTo(CrawlAddresses, MaxProxies)}
                ELSE {<< >>}
    /\ file_at_start = file
    /\ lines_list = << >>
    /\ CrawlerIdle

\* scraper.py lines 32-44: the index page is fetched without proxies; an
\* exception of the GET leaves scrape_country, a status other than 200 is
\* logged and the function returns, a 200 page gives the country links.
GetIndex ==
    /\ cpc = "idle"
    /\ sent' = sent \cup {Request("index", 0, Direct)}
    /\ \E r \in IndexOutcomes :
        IF r.exc # "none"
        THEN /\ cpc' = "raised"
             /\ cexc' = r.exc
             /\ UNCHANGED country_links
        ELSE IF r.status # 200
        THEN /\ cpc' = "returned"
             /\ UNCHANGED <<country_links, cexc>>
        ELSE /\ \E n \in 0..MaxLinks : country_links' = [k \in 1..n |-> k]
             /\ cpc' = "read"
             /\ cexc' = cexc
    /\ UNCHANGED <<proxies, proxy_pool, dispatched, ctask, archives>>
    /\ UNCHANGED mainVars
    /\ UNCHANGED taskVars

\* scraper.py lines 47-48: read_file_to_list opens the file (filesystem.py
\* line 66), which raises FileNotFoundError when there is none; nothing in
\* scrape_country catches it.
ReadProxies ==
    /\ cpc = "read"
    /\ IF file_exists
       THEN /\ proxies' = read_file_to_list(file)
            /\ proxy_pool' = 1
            /\ cpc' = "submit"
            /\ cexc' = cexc
       ELSE /\ cpc' = "raised"
            /\ cexc' = "FileNotFoundError"
            /\ UNCHANGED <<proxies, proxy_pool>>
    /\ UNCHANGED <<country_links, dispatched, ctask, archives, sent>>
    /\ UNCHANGED mainVars
    /\ UNCHANGED taskVars

\* Mutant: the cycle does not start again after the last element.
cycle_next_nowrap(pos, n) == IF pos < n THEN pos + 1 ELSE pos

\* itertools.cycle: after the element at pos comes the one at pos + 1, and
\* after the last one the first.
cycle_next(pos, n) == (pos % n) + 1

\* scraper.py lines 52-56, one iteration: next(proxy_pool) raises
\* StopIteration on the cycle of an empty list, inside the with block;
\* otherwise the task is submitted with the proxy the cycle returned.
SubmitCountry ==
    /\ cpc = "submit"
    /\ Len(dispatched) < Len(country_links)
    /\ IF proxies = << >>
       THEN /\ cexc' = "StopIteration"
            /\ cpc' = "shutdown"
            /\ UNCHANGED <<proxy_pool, dispatched, ctask>>
       ELSE /\ dispatched' = Append(dispatched, proxies[proxy_pool])
            /\ proxy_pool' = cycle_next(proxy_pool, Len(proxies))
            /\ ctask' = [ctask EXCEPT ![Len(dispatched) + 1] = "pending"]
            /\ UNCHANGED <<cpc, cexc>>
    /\ UNCHANGED <<country_links, proxies, archives, sent>>
    /\ UNCHANGED mainVars
    /\ UNCHANGED taskVars

\* scraper.py line 52: the loop over country_links is exhausted.
SubmitCountryDone ==
    /\ cpc = "submit"
    /\ Len(dispatched) = Len(country_links)
    /\ cpc' = "shutdown"
    /\ UNCHANGED <<cexc, country_links, proxies, proxy_pool, dispatched, ctask,
                   archives, sent>>
    /\ UNCHANGED mainVars
    /\ UNCHANGED taskVars

\* scraper.py line 51: leaving the with block waits for the submitted tasks;
\* their futures are dropped, so what they raised is never seen.
CrawlShutdown ==
    /\ cpc = "shutdown"
    /\ \A k \in Links : ctask[k] \in {"none", "done", "raised"}
    /\ cpc' = IF cexc = "none" THEN "returned" ELSE "raised"
    /\ UNCHANGED <<cexc, country_links, proxies, proxy_pool, dispatched, ctask,
                   archives, sent>>
    /\ UNCHANGED mainVars
    /\ UNCHANGED taskVars

\* A worker of scrape_country's pool is free.
CrawlRunning ==
    Cardinality({k \in Links : ctask[k] \in {"page", "files", "sleep"}}) < MaxWorkers

\* scraper.py lines 84-85: the task starts and sends the GET of the country
\* page through the proxy it was submitted with.
StartCountry(k) ==
    /\ ctask[k] = "pending"
    /\ CrawlRunning
    /\ ctask' = [ctask EXCEPT ![k] = "page"]
    /\ sent' = sent \cup {Request("country", k, <<dispatched[k]>>)}
    /\ UNCHANGED <<cpc, cexc, country_links, proxies, proxy_pool, dispatched, archives>>
    /\ UNCHANGED mainVars
    /\ UNCHANGED taskVars

\* scraper.py lines 85-102: an exception of the GET ends the task, a status
\* other than 200 is logged and the task returns, a 200 page gives the
\* archive links.
CountryPage(k) ==
    /\ ctask[k] = "page"
    /\ \E r \in CountryOutcomes :
        IF r.status = 200
        THEN /\ \E n \in 0..MaxArchives : archives' = [archives EXCEPT ![k] = n]
             /\ ctask' = [ctask EXCEPT ![k] = "files"]
        ELSE /\ ctask' = [ctask EXCEPT ![k] = IF r.exc = "none" THEN "done" ELSE "raised"]
             /\ UNCHANGED archives
    /\ UNCHANGED <<cpc, cexc, country_links, proxies, proxy_pool, dispatched, sent>>
    /\ UNCHANGED mainVars
    /\ UNCHANGED taskVars

\* scraper.py lines 105-110 and filesystem.py lines 36-52, one archive:
\* download_and_unzip_file fetches it without proxies; a builtin
\* ConnectionError is caught and logged, an exception of requests ends the
\* task.
Download(k) ==
    /\ ctask[k] = "files"
    /\ archives[k] > 0
    /\ sent' = sent \cup {Request("archive", k, Direct)}
    /\ \E r \in ArchiveOutcomes :
        IF r.exc \in {"none", "OSConnectionError"}
        THEN /\ archives' = [archives EXCEPT ![k] = @ - 1]
             /\ ctask' = ctask
        ELSE /\ archives' = [archives EXCEPT ![k] = 0]
             /\ ctask' = [ctask EXCEPT ![k] = "raised"]
    /\ UNCHANGED <<cpc, cexc, country_links, proxies, proxy_pool, dispatched>>
    /\ UNCHANGED mainVars
    /\ UNCHANGED taskVars

\* scraper.py line 112: all archives were tried, the task sleeps.
DownloadsDone(k) ==
    /\ ctask[k] = "files"
    /\ archives[k] = 0
    /\ ctask' = [ctask EXCEPT ![k] = "sleep"]
    /\ UNCHANGED <<cpc, cexc, country_links, proxies, proxy_pool, dispatched,
                   archives, sent>>
    /\ UNCHANGED mainVars
    /\ UNCHANGED taskVars

\* scraper.py line 112: the sleep is over and the task returns.
CountryWake(k) ==
    /\ ctask[k] = "sleep"
    /\ ctask' = [ctask EXCEPT ![k] = "done"]
    /\ UNCHANGED <<cpc, cexc, country_links, proxies, proxy_pool, dispatched,
                   archives, sent>>
    /\ UNCHANGED mainVars
    /\ UNCHANGED taskVars

CrawlNext ==
    \/ GetIndex
    \/ ReadProxies
    \/ SubmitCountry
    \/ SubmitCountryDone
    \/ CrawlShutdown
    \/ \E k \in Links : StartCountry(k)
    \/ \E k \in Links : CountryPage(k)
    \/ \E k \in Links : Download(k)
    \/ \E k \in Links : DownloadsDone(k)
    \/ \E k \in Links : CountryWake(k)

SpecCrawler == CrawlInit /\ [][CrawlNext]_vars

\* ----------------------------------------------------- notions of the claims

Range(seq) == {seq[k] : k \in DOMAIN seq}

Count(seq, x) == Cardinality({k \in DOMAIN seq : seq[k] = x})

\* The lines of a text, without their terminators.
TextLines(content) ==
    LET lines == split_lines(content, << >>)
    IN  [k \in 1..Len(lines) |->
            IF lines[k][Len(lines[k])] = LF
            THEN SubSeq(lines[k], 1, Len(lines[k]) - 1)
            ELSE lines[k]]

\* Every line of the text is terminated.
Terminated(content) == content = << >> \/ content[Len(content)] = LF

\* host:port, both non-empty and free of whitespace.
WellFormed(str) ==
    /\ \A k \in DOMAIN str : str[k] \notin Whitespace
    /\ \E k \in 2..(Len(str) - 1) : str[k] = ":"

\* The characters of the strings of a sequence, one terminator each included.
RECURSIVE Chars(_)
Chars(seq) == IF seq = << >> THEN 0 ELSE Len(Head(seq)) + 1 + Chars(Tail(seq))

AllWellFormed(seq) == \A k \in DOMAIN seq : WellFormed(seq[k])

Candidates == 1..Len(proxy_list)

\* The candidates the validator classified Working, and Failed.
WorkingTasks == {i \in Candidates : is_valid[i] = "Working"}
FailedTasks == {i \in Candidates : is_valid[i] = "Failed"}

\* A task that is queued or running.
Unfinished(i) == futures[i] \in {"pending", "probe", "valid", "append", "sleep"}

\* Every candidate was submitted and every task has ended.
AllTasksEnded ==
    /\ pc \in {"wait", "shutdown", "open", "write", "returned", "raised"}
    /\ submitted = Len(proxy_list)
    /\ \A i \in Candidates : futures[i] \in {"done", "raised"}

Faulted == \E i \in Tasks : futures[i] = "raised"

\* Network-layer failures of a probe.
NetworkFaults == {"Timeout", "ConnectionError"}

\* ------------------------------------------------------------------ claims

\* C1: after a run in which process_proxies returned normally, the file
\* holds exactly the candidates classified Working in that run, one per
\* line: as many lines as Working candidates, each address as often as it
\* was classified Working, no Failed candidate and no address that was not
\* submitted.
C1_FileIsWorkingSet ==
    pc = "returned" =>
        LET lines == TextLines(file)
        IN  /\ Terminated(file)
            /\ Len(lines) = Cardinality(WorkingTasks)
            /\ \A k \in DOMAIN lines : \E i \in WorkingTasks : proxy_list[i] = lines[k]
            /\ \A a \in Range(proxy_list) \cup Range(lines) :
                   Count(lines, a) = Cardinality({i \in WorkingTasks : proxy_list[i] = a})
            /\ (proxy_list = << >> => file = << >>)

\* Candidates [a, b], a Working and b Failed: the file is the single line a.
C1_Witness ==
    /\ pc = "returned"
    /\ Len(proxy_list) = 2
    /\ proxy_list[1] # proxy_list[2]
    /\ is_valid[1] = "Working"
    /\ is_valid[2] = "Failed"
    /\ file = proxy_list[1] \o <<LF>>

\* C2: the file is opened, written or already written by this run only
\* when every candidate has been submitted and no task is queued or
\* running; before that the file still has the content the run started with.
C2_BarrierBeforePersist ==
    /\ pc \in {"open", "write", "returned"} =>
           /\ submitted = Len(proxy_list)
           /\ \A i \in Tasks : ~Unfinished(i)
           /\ \A i \in Candidates : futures[i] = "done"
    /\ pc \notin {"write", "returned"} => file = file_at_start

\* The file is open for writing after two tasks slept and ended.
C2_Witness ==
    /\ pc = "write"
    /\ Len(proxy_list) >= 2
    /\ Cardinality({i \in Tasks : naps[i] = 1}) >= 2
    /\ file_at_start # << >>
    /\ file = << >>

\* C3: at most one task is inside list.append at a time, a task that is
\* probing or sleeping is not inside it, and once every task has ended the
\* result list has exactly one entry per candidate classified Working
\* (none lost, none added twice).
C3_AppendSafety ==
    /\ Cardinality({i \in Tasks : futures[i] = "append"}) <= 1
    /\ \A i \in Tasks : (futures[i] = "append") <=> (lock = i)
    /\ AllTasksEnded =>
           /\ Len(valid_proxies) = Cardinality(WorkingTasks)
           /\ \A a \in Range(proxy_list) \cup Range(valid_proxies) :
                  Count(valid_proxies, a)
                      = Cardinality({i \in WorkingTasks : proxy_list[i] = a})

\* Three candidates, two of them Working, all tasks ended.
C3_Witness ==
    /\ AllTasksEnded
    /\ Len(proxy_list) = 3
    /\ Cardinality(WorkingTasks) = 2
    /\ Len(valid_proxies) = 2

\* C4: once a task has raised an unexpected exception the run does not end
\* normally and does not reach the write of the file, which keeps the
\* content it had before the run; when the run ends, it ends with that
\* exception leaving scrape_free_proxy.
C4_FailFast ==
    Faulted =>
        /\ pc \notin {"open", "write", "returned", "fetch_failed"}
        /\ file = file_at_start
        /\ pc = "raised" => exc \in OtherException

\* The exception has left scrape_free_proxy, another candidate was collected,
\* and the file is what it was.
C4_Witness ==
    /\ Faulted
    /\ pc = "raised"
    /\ exc = "ValueError"
    /\ valid_proxies # << >>
    /\ file # << >>
    /\ file = file_at_start

\* C5: a task sleeps only after its probe was classified Working and its
\* candidate appended, once, for a duration within [delay_min, delay_max];
\* a task whose probe was classified Failed ends without a sleep and
\* without an entry in the result list.
C5_DelayOnlyOnSuccess ==
    /\ \A i \in Tasks :
        /\ futures[i] = "sleep" =>
               /\ is_valid[i] = "Working"
               /\ naps[i] = 1
               /\ delay_min <= nap[i] /\ nap[i] <= delay_max
        /\ futures[i] = "done" =>
               /\ nap[i] = 0
               /\ is_valid[i] \in {"Working", "Failed"}
               /\ naps[i] = (IF is_valid[i] = "Working" THEN 1 ELSE 0)
        /\ futures[i] \notin {"sleep", "done"} => naps[i] = 0 /\ nap[i] = 0
    /\ \A a \in Range(proxy_list) \cup Range(valid_proxies) :
           Count(valid_proxies, a)
               = Cardinality({i \in WorkingTasks :
                                 proxy_list[i] = a /\ futures[i] \in {"sleep", "done"}})

\* One task sleeps the longest delay after appending while a Failed one has
\* already ended.
C5_Witness ==
    \E i, j \in Candidates :
        /\ futures[i] = "sleep"
        /\ nap[i] = delay_max
        /\ proxy_list[i] \in Range(valid_proxies)
        /\ futures[j] = "done"
        /\ is_valid[j] = "Failed"
        /\ naps[j] = 0

\* C6: a probe that ends in a response or in a network-layer failure never
\* makes the task raise, and is classified Working exactly when the response
\* has status 200, Failed otherwise.
C6_ValidatorTotal ==
    [][\A i \in Tasks :
          (/\ futures[i] = "probe"
           /\ futures'[i] # "probe"
           /\ probe[i].exc \in {"none"} \cup NetworkFaults)
          => /\ futures'[i] # "raised"
             /\ is_valid'[i] = (IF probe[i].exc = "none" /\ probe[i].status = 200
                                THEN "Working" ELSE "Failed")]_vars

\* A Working and a Failed classification were made and a probe that will
\* time out is in flight.
C6_Witness ==
    /\ Cardinality(FailedTasks) >= 1
    /\ Cardinality(WorkingTasks) >= 1
    /\ \E i \in Candidates : futures[i] = "probe" /\ probe[i].exc = "Timeout"

\* C7: on a fetched page (a 2xx response) without the table no exception
\* leaves scrape_free_proxy: the run goes on to process_proxies with an
\* empty candidate list.
C7_NoTableNonFatal ==
    (table = "None" /\ 200 <= response.status /\ response.status <= 299) =>
        /\ exc = "none"
        /\ pc \in {"rows", "submit", "wait", "shutdown", "open", "write", "returned"}
        /\ proxy_list = << >>

\* C8: a GET of the list page that ends in an exception or in a response
\* whose status is not 2xx is logged and scrape_free_proxy returns: the page
\* is not parsed and no task is submitted.
C8_FetchFailureNonFatal ==
    (\/ response.exc # "none"
     \/ response.status # 0 /\ ~(200 <= response.status /\ response.status <= 299))
    => pc \in {"got", "fetch_failed"}

\* C9: a sequence of well-formed address:port strings written by the
\* persist step and read back by read_file_to_list is returned unchanged;
\* the empty sequence gives an empty file and an empty list.
C9_RoundTrip ==
    (pc = "loaded" /\ AllWellFormed(valid_proxies)) =>
        /\ lines_list = valid_proxies
        /\ valid_proxies = << >> => file = << >>

\* Two different addresses written and read back.
C9_Witness ==
    /\ pc = "loaded"
    /\ Len(valid_proxies) = 2
    /\ AllWellFormed(valid_proxies)
    /\ valid_proxies[1] # valid_proxies[2]
    /\ Len(lines_list) = 2

\* C10: after the persist step the file holds the lines of the sequence
\* just written and nothing else, whatever it held before.
C10_Overwrite ==
    pc \in {"returned", "loaded"} =>
        /\ Len(file) = Chars(valid_proxies)
        /\ Terminated(file)
        /\ AllWellFormed(valid_proxies) => TextLines(file) = valid_proxies

\* A was persisted, then a different non-empty B: the file is B.
C10_Witness ==
    /\ pc = "returned"
    /\ file_at_start \notin PriorFiles
    /\ file_at_start # << >>
    /\ valid_proxies # << >>
    /\ AllWellFormed(valid_proxies)
    /\ file # file_at_start
    /\ TextLines(file) = valid_proxies

\* C11: the result list grows only at its end, by the candidate of the task
\* that leaves list.append, so its order is the order in which the Working
\* validations completed; and the file written by the run has the lines of
\* the result list in that order.
C11_CompletionOrder ==
    /\ [](pc = "returned" => TextLines(file) = valid_proxies)
    /\ [][/\ \A i \in Tasks :
               (futures[i] = "append" /\ futures'[i] # "append")
               => valid_proxies' = Append(valid_proxies, proxy_list[i])
          /\ valid_proxies' # valid_proxies
               => \E i \in Tasks : futures[i] = "append" /\ futures'[i] = "sleep"]_vars

\* The second candidate completed first: the file is not in submission order.
C11_Witness ==
    /\ pc = "returned"
    /\ Len(proxy_list) = 2
    /\ proxy_list[1] # proxy_list[2]
    /\ valid_proxies = <<proxy_list[2], proxy_list[1]>>
    /\ file = proxy_list[2] \o <<LF>> \o proxy_list[1] \o <<LF>>

\* C14: one task is dispatched per entry of the candidate list, none for
\* anything else, and every task issues one probe: none before it starts,
\* exactly one from then on, whatever the probe's outcome.
C14_NoRetries ==
    /\ submitted <= Len(proxy_list)
    /\ \A i \in Tasks :
        /\ (futures[i] # "none") <=> (i <= submitted)
        /\ probes[i] = (IF futures[i] \in {"none", "pending"} THEN 0 ELSE 1)
    /\ AllTasksEnded => \A i \in Candidates : probes[i] = 1

\* Three candidates, one of them Failed, every task ended after one probe.
C14_Witness ==
    /\ AllTasksEnded
    /\ pc = "returned"
    /\ Len(proxy_list) = 3
    /\ FailedTasks # {}
    /\ \A i \in Candidates : probes[i] = 1

\* C15: a run that has entered process_proxies eventually ends, with the
\* file written or with an exception raised to the caller.
C15_RunCompletes == (pc = "submit") ~> (pc \in {"returned", "raised"})

\* More candidates than worker threads, and the run has ended.
C15_Witness ==
    /\ pc = "returned"
    /\ Len(proxy_list) > MaxWorkers
    /\ \A i \in Candidates : futures[i] = "done"

\* C17: when process_proxies has left the with block, returned or raised,
\* no task is queued or running; when it raised a task's exception, every
\* candidate had been submitted and every other task ran to its end (one
\* probe, and for a Working one the append and the sleep), none cancelled.
C17_PoolDrained ==
    pc \in {"open", "write", "returned", "raised"} =>
        /\ \A i \in Tasks : ~Unfinished(i)
        /\ (pc = "raised" /\ Faulted) =>
               /\ submitted = Len(proxy_list)
               /\ \A i \in Candidates :
                    /\ futures[i] \in {"done", "raised"}
                    /\ probes[i] = 1
                    /\ futures[i] = "done" => is_valid[i] \in {"Working", "Failed"}
                    /\ is_valid[i] = "Working" =>
                           naps[i] = 1 /\ proxy_list[i] \in Range(valid_proxies)

\* The first task raised; a later one still appended and slept before the
\* exception left process_proxies.
C17_Witness ==
    /\ pc = "raised"
    /\ Len(proxy_list) = 3
    /\ futures[1] = "raised"
    /\ futures[3] = "done"
    /\ is_valid[3] = "Working"
    /\ naps[3] = 1
    /\ valid_proxies = <<proxy_list[3]>>

\* C18: a list-page GET that ended in a network fault or in a response whose
\* status is not 2xx is never followed by the call of process_proxies, and
\* the proxy list file changes only in the persist step, once the barrier
\* has been passed.
C18_FailedFetchKeepsFile ==
    [][/\ (\/ response.exc # "none"
           \/ response.status # 0 /\ ~(200 <= response.status /\ response.status <= 299))
          => (pc' # "submit" /\ file' = file)
       /\ file' # file => (pc \in {"open", "write"} /\ \A i \in Tasks : ~Unfinished(i))]_vars

\* C12: when scrape_country runs with a proxy list file that is missing or
\* has no lines, and the index page gave at least one country link, no
\* exception leaves scrape_country.
C12_NoProxiesGraceful ==
    (/\ ~file_exists \/ TextLines(file) = << >>
     /\ Len(country_links) >= 1)
    => (cexc = "none" /\ cpc # "raised")

\* C13: every HTTP request issued during scrape_country (index page, country
\* page, archive download) is routed through one proxy of the loaded list.
C13_EveryRequestProxied ==
    \A r \in sent : /\ Len(r.via) = 1
                    /\ r.via[1] \in Range(proxies)

\* C16: with a loaded list of n >= 1 proxies, the k-th submitted country
\* task (counted from 0) is given proxy k mod n of the list and sends its
\* country page request through that proxy, whatever the tasks have done in
\* the meantime; tasks are submitted in page order and only with a proxy.
C16_RoundRobin ==
    /\ Len(dispatched) <= Len(country_links)
    /\ dispatched # << >> => Len(proxies) >= 1
    /\ \A k \in Links : (ctask[k] # "none") <=> (k <= Len(dispatched))
    /\ \A k \in 1..Len(dispatched) :
        dispatched[k] = proxies[((k - 1) % Len(proxies)) + 1]
    /\ \A r \in sent : r.request = "country" =>
        /\ r.task \in 1..Len(dispatched)
        /\ r.via = <<proxies[((r.task - 1) % Len(proxies)) + 1]>>
    /\ \A k \in Links : ctask[k] \in {"page", "files", "sleep", "done", "raised"}
        => Request("country", k, <<dispatched[k]>>) \in sent

\* Two different proxies, three country tasks: the third one wrapped around
\* to the first proxy while the second task was still waiting for a worker.
C16_Witness ==
    /\ Len(proxies) = 2
    /\ proxies[1] # proxies[2]
    /\ Len(dispatched) = 3
    /\ dispatched = <<proxies[1], proxies[2], proxies[1]>>
    /\ ctask[1] = "done"
    /\ ctask[2] = "pending"
    /\ ctask[3] = "sleep"
    /\ Request("country", 3, <<proxies[1]>>) \in sent

====
